---- MODULE Spec2Model ----
(***************************************************************************)
(* go-comic-converter: the image loader (load, loadDir, loadCbz, loadCbr,  *)
(* loadPdf of internal/epub/imageprocessor) and the option checks of main. *)
(*                                                                         *)
(* A string is a sequence of one-character strings, so that the path       *)
(* functions of the Go library (filepath.Ext, Split, Clean, Join,          *)
(* strings.ToLower) are computed character by character.                   *)
(***************************************************************************)
EXTENDS Integers, Sequences, FiniteSets, TLC

\* ------------------------------------------------------------- bounds
\* Longest container listing (entries of a directory walk, members of an
\* archive, pages of a pdf).
MaxEntries == 2
\* Largest configured e.Workers; a run has e.Workers 1 or MaxWorkers.
MaxWorkers == 4
\* main: the size limits tried are -MaxNegLimit .. MaxLimit.
MaxNegLimit == 2
MaxLimit == 21
\* Most pages of a pdf read on its own (two digits, so that names are padded).
MaxPages == 11

\* ------------------------------------------------------------ strings
Range(s) == {s[i] : i \in DOMAIN s}

Max(S) == CHOOSE x \in S : \A y \in S : y <= x

UpperChars == <<"A","B","C","D","E","F","G","H","I","J","K","L","M",
                "N","O","P","Q","R","S","T","U","V","W","X","Y","Z">>

LowerChars == <<"a","b","c","d","e","f","g","h","i","j","k","l","m",
                "n","o","p","q","r","s","t","u","v","w","x","y","z">>

\* Byte order of the characters the model uses (ASCII).
Alphabet == <<" ", ".", "/", "0","1","2","3","4","5","6","7","8","9">>
            \o UpperChars \o LowerChars

CharRank(c) == CHOOSE i \in DOMAIN Alphabet : Alphabet[i] = c

ToLowerChar(c) ==
    IF \E i \in DOMAIN UpperChars : UpperChars[i] = c
    THEN LowerChars[CHOOSE i \in DOMAIN UpperChars : UpperChars[i] = c]
    ELSE c

\* strings.ToLower
ToLower(s) == [i \in DOMAIN s |-> ToLowerChar(s[i])]

\* Index of the last "/" of path, 0 when there is none.
LastSlash(path) ==
    IF \E i \in DOMAIN path : path[i] = "/"
    THEN Max({i \in DOMAIN path : path[i] = "/"})
    ELSE 0

\* filepath.Ext: the suffix beginning at the final dot of the final element
\* of path; empty when that element has no dot.
Ext(path) ==
    LET from == LastSlash(path) + 1
        dots == {i \in from..Len(path) : path[i] = "."}
    IN  IF dots = {} THEN <<>> ELSE SubSeq(path, Max(dots), Len(path))

\* filepath.Split: the directory (with its final slash) and the file.
Split(path) ==
    LET i == LastSlash(path)
    IN  <<SubSeq(path, 1, i), SubSeq(path, i + 1, Len(path))>>

\* The elements of path between slashes, empty ones included.
RECURSIVE Elements(_)
Elements(path) ==
    IF \A i \in DOMAIN path : path[i] # "/"
    THEN <<path>>
    ELSE LET i == CHOOSE k \in DOMAIN path :
                     path[k] = "/" /\ \A j \in 1..(k - 1) : path[j] # "/"
         IN  <<SubSeq(path, 1, i - 1)>> \o Elements(SubSeq(path, i + 1, Len(path)))

RECURSIVE JoinElements(_)
JoinElements(els) ==
    IF els = <<>> THEN <<>>
    ELSE IF Len(els) = 1 THEN els[1]
    ELSE els[1] \o <<"/">> \o JoinElements(Tail(els))

\* The elements kept by filepath.Clean: "" and "." dropped, ".." removing the
\* element before it (dropped at the root, kept at the start of a relative
\* path).
RECURSIVE CleanElements(_, _, _)
CleanElements(els, kept, rooted) ==
    IF els = <<>> THEN kept
    ELSE LET el == Head(els)
             rest == Tail(els)
         IN  IF el = <<>> \/ el = <<".">>
             THEN CleanElements(rest, kept, rooted)
             ELSE IF el = <<".", ".">>
             THEN IF kept # <<>> /\ kept[Len(kept)] # <<".", ".">>
                  THEN CleanElements(rest, SubSeq(kept, 1, Len(kept) - 1), rooted)
                  ELSE IF rooted
                  THEN CleanElements(rest, kept, rooted)
                  ELSE CleanElements(rest, Append(kept, el), rooted)
             ELSE CleanElements(rest, Append(kept, el), rooted)

\* filepath.Clean
Clean(path) ==
    IF path = <<>> THEN <<".">>
    ELSE LET rooted == path[1] = "/"
             body == JoinElements(CleanElements(Elements(path), <<>>, rooted))
             out == IF rooted THEN <<"/">> \o body ELSE body
         IN  IF out = <<>> THEN <<".">> ELSE out

\* filepath.Join of two elements: empty elements are ignored, the result is
\* cleaned.
JoinPath(a, b) ==
    IF a = <<>> /\ b = <<>> THEN <<>>
    ELSE IF a = <<>> THEN Clean(b)
    ELSE IF b = <<>> THEN Clean(a)
    ELSE Clean(a \o <<"/">> \o b)

\* Byte-wise comparison of two strings.
RECURSIVE StrLess(_, _)
StrLess(a, b) ==
    IF b = <<>> THEN FALSE
    ELSE IF a = <<>> THEN TRUE
    ELSE IF a[1] # b[1] THEN CharRank(a[1]) < CharRank(b[1])
    ELSE StrLess(Tail(a), Tail(b))

\* ------------------------------------------------- listing and indexing
Str_jpg == <<".", "j", "p", "g">>
Str_jpeg == <<".", "j", "p", "e", "g">>
Str_png == <<".", "p", "n", "g">>
Str_webp == <<".", "w", "e", "b", "p">>
Str_cbz == <<".", "c", "b", "z">>
Str_zip == <<".", "z", "i", "p">>
Str_cbr == <<".", "c", "b", "r">>
Str_rar == <<".", "r", "a", "r">>
Str_pdf == <<".", "p", "d", "f">>

\* isSupportedImage: only jpg, jpeg, png and webp are source images.
isSupportedImage(path) ==
    ToLower(Ext(path)) \in {Str_jpg, Str_jpeg, Str_png, Str_webp}

\* A dispatch that compares the extension as written.
SelectLoaderCaseSensitive(isDir, inputPath) ==
    IF isDir THEN "dir"
    ELSE LET ext == Ext(inputPath)
         IN  IF ext \in {Str_cbz, Str_zip} THEN "cbz"
             ELSE IF ext \in {Str_cbr, Str_rar} THEN "cbr"
             ELSE IF ext = Str_pdf THEN "pdf"
             ELSE "unknown"

\* load: the loader chosen from the directory check, then the lower-cased
\* extension of e.Input.
SelectLoader(isDir, inputPath) ==
    IF isDir THEN "dir"
    ELSE LET ext == ToLower(Ext(inputPath))
         IN  IF ext \in {Str_cbz, Str_zip} THEN "cbz"
             ELSE IF ext \in {Str_cbr, Str_rar} THEN "cbr"
             ELSE IF ext = Str_pdf THEN "pdf"
             ELSE "unknown"

\* sort.Sort(sortpath.By(names, mode)): the names in the order of the path
\* sorter, a total order on distinct names.
SortNames(names) == SortSeq(names, StrLess)

\* indexedNames: for i, name := range names { indexedNames[name] = i }, so a
\* name that occurs twice keeps its last index.
IndexedNames(names) ==
    [n \in Range(names) |-> Max({i \in DOMAIN names : names[i] = n}) - 1]

\* Options.WorkersRatio: the share pct of e.Workers, at least 1.
WorkersRatio(workers, pct) ==
    LET nb == (workers * pct) \div 100
    IN  IF nb < 1 THEN 1 ELSE nb

\* A listing with each entry's position. The position also stands for the
\* entry's content: opening entry i, or streaming it from the sequential
\* reader, reads the bytes i. A job holds the entry to open (ent), or the
\* bytes already buffered for it (buf, 0 when there are none).
Indexed(files) ==
    [i \in DOMAIN files |->
        [name |-> files[i].name, isDir |-> files[i].isDir,
         solid |-> files[i].solid, ent |-> i]]

NamesOf(entries) == [i \in DOMAIN entries |-> entries[i].name]

\* loadDir: filepath.WalkDir visits input joined with each entry below it;
\* the non-directory paths with a supported extension are the images.
DirImages(input, files) ==
    LET walk == [i \in DOMAIN files |->
                    [name |-> JoinPath(input, files[i].name),
                     isDir |-> files[i].isDir, solid |-> FALSE, ent |-> i]]
    IN  SelectSeq(walk, LAMBDA f : ~f.isDir /\ isSupportedImage(f.name))

\* loadDir: the images sorted, job i carrying the i-th path.
DirJobs(input, files) ==
    LET images == DirImages(input, files)
        sorted == SortNames(NamesOf(images))
    IN  [i \in DOMAIN sorted |->
            [Id |-> i - 1, name |-> sorted[i],
             ent |-> images[CHOOSE k \in DOMAIN images :
                                  images[k].name = sorted[i]].ent,
             buf |-> 0]]

\* loadCbz: the members that are no directory and have a supported extension.
CbzImages(files) ==
    SelectSeq(Indexed(files), LAMBDA f : ~f.isDir /\ isSupportedImage(f.name))

\* A zip producer that numbers its jobs as it sends them, in archive order.
CbzJobsArchiveOrder(files) ==
    LET images == CbzImages(files)
    IN  [i \in DOMAIN images |->
            [Id |-> i - 1, name |-> images[i].name, ent |-> images[i].ent,
             buf |-> 0]]

\* loadCbz: one job per image, in archive order, its Id looked up by name.
CbzJobs(files) ==
    LET images == CbzImages(files)
        idx == IndexedNames(SortNames(NamesOf(images)))
    IN  [i \in DOMAIN images |->
            [Id |-> idx[images[i].name], name |-> images[i].name,
             ent |-> images[i].ent, buf |-> 0]]

\* loadCbr: the names of the qualifying members, and whether one is solid.
CbrImages(files) ==
    SelectSeq(Indexed(files), LAMBDA f : ~f.isDir /\ isSupportedImage(f.name))

\* A listing pass that takes the archive for solid only when every image
\* member is flagged.
CbrIsSolidEveryImage(files) ==
    \A i \in DOMAIN files :
        (~files[i].isDir /\ isSupportedImage(files[i].name)) => files[i].solid

CbrIsSolid(files) ==
    \E i \in DOMAIN files :
        ~files[i].isDir /\ isSupportedImage(files[i].name) /\ files[i].solid

CbrIndex(files) == IndexedNames(SortNames(NamesOf(CbrImages(files))))

\* loadCbr, per-entry strategy: every listed member whose name is indexed.
CbrJobs(files) ==
    LET idx == CbrIndex(files)
        wanted == SelectSeq(Indexed(files), LAMBDA f : f.name \in DOMAIN idx)
    IN  [i \in DOMAIN wanted |->
            [Id |-> idx[wanted[i].name], name |-> wanted[i].name,
             ent |-> wanted[i].ent, buf |-> 0]]

\* A producer that takes the sequential strategy for a solid archive in a dry
\* run too.
UseSolidReaderInDryRun(isSolid, dry) == isSolid

\* loadCbr: the sequential strategy is taken for a solid archive, except in a
\* dry run.
UseSolidReader(isSolid, dry) == isSolid /\ ~dry

\* loadDir: the task's Path and Name from the job's path. p[len(input)+1:]
\* panics when len(input)+1 exceeds len(p).
DirTaskPath(input, path) ==
    LET p == Split(path)[1]
        fn == Split(path)[2]
    IN  IF p = input THEN [panic |-> FALSE, Path |-> <<>>, Name |-> fn]
        ELSE IF Len(input) + 1 > Len(p)
        THEN [panic |-> TRUE, Path |-> <<>>, Name |-> fn]
        ELSE [panic |-> FALSE,
              Path |-> SubSeq(p, Len(input) + 2, Len(p)), Name |-> fn]

\* loadCbz, loadCbr: filepath.Split(filepath.Clean(name)).
ArchiveTaskPath(name) ==
    [panic |-> FALSE, Path |-> Split(Clean(name))[1], Name |-> Split(Clean(name))[2]]

\* The decimal digits of a natural number, as a string.
RECURSIVE Digits(_)
Digits(n) ==
    LET d == <<"0","1","2","3","4","5","6","7","8","9">>[(n % 10) + 1]
    IN  IF n < 10 THEN <<d>> ELSE Digits(n \div 10) \o <<d>>

\* fmt.Sprintf("%0<w>d", n): n padded with zeros to at least w digits.
RECURSIVE ZeroPad(_, _)
ZeroPad(s, w) == IF Len(s) >= w THEN s ELSE ZeroPad(<<"0">> \o s, w)

\* A page name without padding.
PdfPageNameUnpadded(i, totalImages) == <<"p","a","g","e"," ">> \o Digits(i + 1)

\* loadPdf: fmt.Sprintf("page %0<w>d", i+1), w the digits of totalImages.
PdfPageName(i, totalImages) ==
    <<"p","a","g","e"," ">> \o ZeroPad(Digits(i + 1), Len(Digits(totalImages)))

\* ---------------------------------------------------------------- load
NoProducer == [pc |-> "off", mode |-> "none", q |-> <<>>, pos |-> 0]

\* What a loader hands back and starts: the returned triple (totalImages,
\* output, err), the producer it started, the number of workers and the
\* capacity of the output channel, and whether it closed the zip reader.
Failed(l, n, why, closed) ==
    [loader |-> l, totalImages |-> n, output |-> FALSE, err |-> why,
     prod |-> NoProducer, workers |-> 0, outCap |-> 0, rClosed |-> closed]

Started(l, n, p, nw, cap) ==
    [loader |-> l, totalImages |-> n, output |-> TRUE, err |-> "nil",
     prod |-> p, workers |-> nw, outCap |-> cap, rClosed |-> 0]

loadDir(ee, fs, fl) ==
    LET input == Clean(ee.Input)
        totalImages == Len(DirImages(input, fl))
    IN  IF ~fs.readable THEN Failed("dir", 0, "io", 0)
        ELSE IF totalImages = 0 THEN Failed("dir", 0, "noimages", 0)
        ELSE Started("dir", totalImages,
                     [pc |-> "send", mode |-> "list",
                      q |-> DirJobs(input, fl), pos |-> 0],
                     WorkersRatio(ee.Workers, 50), ee.Workers)

\* A zip loader that returns the no-images error with the reader left open.
loadCbzLeavesReaderOpen(ee, fs, fl) ==
    LET totalImages == Len(CbzImages(fl))
    IN  IF ~fs.readable THEN Failed("cbz", 0, "io", 0)
        ELSE IF totalImages = 0 THEN Failed("cbz", 0, "noimages", 0)
        ELSE Started("cbz", totalImages,
                     [pc |-> "send", mode |-> "list", q |-> CbzJobs(fl), pos |-> 0],
                     WorkersRatio(ee.Workers, 50), ee.Workers)

loadCbz(ee, fs, fl) ==
    LET totalImages == Len(CbzImages(fl))
    IN  IF ~fs.readable THEN Failed("cbz", 0, "io", 0)
        ELSE IF totalImages = 0 THEN Failed("cbz", 0, "noimages", 1)
        ELSE Started("cbz", totalImages,
                     [pc |-> "send", mode |-> "list", q |-> CbzJobs(fl), pos |-> 0],
                     WorkersRatio(ee.Workers, 50), ee.Workers)

loadCbr(ee, fs, fl) ==
    LET totalImages == Len(CbrImages(fl))
    IN  IF ~fs.readable THEN Failed("cbr", 0, "io", 0)
        ELSE IF totalImages = 0 THEN Failed("cbr", 0, "noimages", 0)
        ELSE Started("cbr", totalImages,
                     IF UseSolidReader(CbrIsSolid(fl), ee.Dry)
                     THEN [pc |-> "open", mode |-> "solid", q |-> <<>>, pos |-> 0]
                     ELSE [pc |-> "send", mode |-> "list", q |-> CbrJobs(fl), pos |-> 0],
                     WorkersRatio(ee.Workers, 50), ee.Workers)

\* loadPdf: one page per listed entry; the producer sends on an unbuffered
\* output channel and there are no workers.
loadPdf(ee, fs, fl) ==
    IF ~fs.readable THEN Failed("pdf", 0, "io", 0)
    ELSE Started("pdf", Len(fl),
                 [pc |-> "loop", mode |-> "pdf", q |-> <<>>, pos |-> 0], 0, 0)

load(ee, fs, fl) ==
    IF ~fs.statOk THEN Failed("none", 0, "stat", 0)
    ELSE LET k == SelectLoader(fs.isDir, ee.Input)
         IN  CASE k = "dir" -> loadDir(ee, fs, fl)
               [] k = "cbz" -> loadCbz(ee, fs, fl)
               [] k = "cbr" -> loadCbr(ee, fs, fl)
               [] k = "pdf" -> loadPdf(ee, fs, fl)
               [] OTHER -> Failed("none", 0, "unknown", 0)

\* --------------------------------------------------------------- state
VARIABLES
    e,          \* the processor's options: Input, Dry, Workers
    fsys,       \* what the file system answers for e.Input
    files,      \* the container's listing, in container order
    lpc,        \* "init" before load() is called, "returned" after
    ret,        \* what load() returned: totalImages, output, err
    loader,     \* the loader load() invoked, "none" when it invoked none
    prod,       \* the producer routine: pc, mode, jobs left, reader position
    jobsClosed, \* close(jobs) has run
    wk,         \* the worker routines: pc, the job held, the task built
    outBuf,     \* the tasks buffered in the output channel
    outCap,     \* the capacity of the output channel
    outClosed,  \* how many times close(output) has run
    cpc,        \* the closing routine: "off", "wait", "rclose", "done"
    rClosed,    \* how many times the zip reader was closed
    received,   \* the tasks the consumer has received, in order
    sawClose,   \* the consumer has observed the closed channel
    exit,       \* the process: code -1 while it runs, else how it ended
    handed,     \* (Id, Name, bytes) of every entry handed to image.Decode
    mpc,        \* main: the check it is at
    opt,        \* main: the parsed options
    menv,       \* main: what the environment answers (stat, tables, Write),
                \* and the -output argument as it was typed
    mout        \* main: the exit code (-1 while running), the options Write got

pvars == <<e, fsys, files, lpc, ret, loader, prod, jobsClosed, wk, outBuf,
           outCap, outClosed, cpc, rClosed, received, sawClose, exit, handed>>

mvars == <<mpc, opt, menv, mout>>

vars == <<pvars, mvars>>

Running == [code |-> -1, by |-> "none", cause |-> "none",
            msg |-> <<>>, offender |-> <<>>]

\* os.Exit(1) after fmt.Fprintf(os.Stderr, "error processing image %s", msg).
Exit1(by, cause, msg, offender) ==
    [code |-> 1, by |-> by, cause |-> cause, msg |-> msg, offender |-> offender]

\* A run-time panic of a routine ends the process with status 2 and prints
\* no message of the program.
Panic(by, cause, offender) ==
    [code |-> 2, by |-> by, cause |-> cause, msg |-> <<>>, offender |-> offender]

Alive == lpc = "returned" /\ exit.code = -1

IdleWorker == [pc |-> "recv", job |-> <<>>, task |-> <<>>]

\* ---------------------------------------------------------------- inputs
Name_b == <<"b", ".", "j", "p", "g">>
Name_da == <<"d", "/", "a", ".", "P", "N", "G">>
Name_c == <<"c", ".", "t", "x", "t">>
EntryNames == {Name_b, Name_da, Name_c}

Path_in == <<"i", "n">>
Path_dot == <<".">>
Path_cbz == <<"a", ".", "c", "b", "z">>
Path_cbr == <<"a", ".", "c", "b", "r">>
Path_pdf == <<"a", ".", "p", "d", "f">>
Path_txt == <<"a", ".", "t", "x", "t">>
DirPaths == {Path_in, Path_dot}
InputPaths == DirPaths \cup {Path_cbz, Path_cbr, Path_pdf, Path_txt}

Entries == [name : EntryNames, isDir : BOOLEAN, solid : BOOLEAN]

SeqsUpTo(S, n) == UNION {[1..k -> S] : k \in 0..n}

Page == [name |-> Name_b, isDir |-> FALSE, solid |-> FALSE]

\* The listings a container of kind k can have. The fields a loader never
\* reads are fixed: the solid flag outside rar, the whole entry for a pdf
\* page. A directory walk visits every path once.
ListingFits(k, fl) ==
    /\ k # "cbr" => \A i \in DOMAIN fl : ~fl[i].solid
    /\ k = "pdf" => \A i \in DOMAIN fl : fl[i] = Page
    /\ k = "dir" => \A i, j \in DOMAIN fl : fl[i].name = fl[j].name => i = j

MainIdle ==
    /\ mpc = "off"
    /\ opt = <<>>
    /\ menv = <<>>
    /\ mout = <<>>

PipelineStart ==
    /\ lpc = "init"
    /\ ret = [totalImages |-> 0, output |-> FALSE, err |-> "nil"]
    /\ loader = "none"
    /\ prod = NoProducer
    /\ jobsClosed = FALSE
    /\ wk = <<>>
    /\ outBuf = <<>>
    /\ outCap = 0
    /\ outClosed = 0
    /\ cpc = "off"
    /\ rClosed = 0
    /\ received = <<>>
    /\ sawClose = FALSE
    /\ exit = Running
    /\ handed = {}

\* An input whose listing is never read (no stat, unknown format, unreadable
\* container) has the empty listing.
Init ==
    /\ e \in [Input : InputPaths, Dry : BOOLEAN, Workers : {1, MaxWorkers}]
    /\ fsys \in [statOk : BOOLEAN, isDir : BOOLEAN, readable : BOOLEAN]
    /\ fsys.isDir = (e.Input \in DirPaths)
    /\ files \in SeqsUpTo(Entries, MaxEntries)
    /\ LET k == SelectLoader(fsys.isDir, e.Input)
       IN  /\ ListingFits(k, files)
           /\ (~fsys.statOk \/ ~fsys.readable \/ k = "unknown") => files = <<>>
    /\ PipelineStart
    /\ MainIdle

\* ---------------------------------------------------------------- load()
Load ==
    /\ lpc = "init"
    /\ exit.code = -1
    /\ mpc = "off"
    /\ LET r == load(e, fsys, files)
       IN  /\ lpc' = "returned"
           /\ ret' = [totalImages |-> r.totalImages, output |-> r.output,
                      err |-> r.err]
           /\ loader' = r.loader
           /\ prod' = r.prod
           /\ wk' = [w \in 1..r.workers |-> IdleWorker]
           /\ outCap' = r.outCap
           /\ rClosed' = r.rClosed
           /\ cpc' = IF r.workers > 0 THEN "wait" ELSE "off"
    /\ UNCHANGED <<e, fsys, files, jobsClosed, outBuf, outClosed, received,
                   sawClose, exit, handed, mvars>>

\* ------------------------------------------------------------- producers
\* jobs <- &job{...}: the unbuffered send meets a worker waiting in
\* "for job := range jobs".
ProducerSend(w) ==
    /\ Alive
    /\ w \in DOMAIN wk
    /\ prod.pc = "send"
    /\ prod.q # <<>>
    /\ wk[w].pc = "recv"
    /\ wk' = [wk EXCEPT ![w] = [pc |-> "work", job |-> Head(prod.q), task |-> <<>>]]
    /\ prod' = [prod EXCEPT !.q = Tail(prod.q),
                            !.pc = IF prod.mode = "solid" THEN "next" ELSE "send"]
    /\ UNCHANGED <<e, fsys, files, lpc, ret, loader, jobsClosed, outBuf, outCap,
                   outClosed, cpc, rClosed, received, sawClose, exit, handed, mvars>>

\* The per-entry producer has sent every job: defer close(jobs).
ProducerClose ==
    /\ Alive
    /\ prod.pc = "send"
    /\ prod.mode = "list"
    /\ prod.q = <<>>
    /\ prod' = [prod EXCEPT !.pc = "done"]
    /\ jobsClosed' = TRUE
    /\ UNCHANGED <<e, fsys, files, lpc, ret, loader, wk, outBuf, outCap,
                   outClosed, cpc, rClosed, received, sawClose, exit, handed, mvars>>

\* Solid rar: rardecode.OpenReader(e.Input) in the producer routine.
RarOpen ==
    /\ Alive
    /\ prod.pc = "open"
    /\ \E ok \in BOOLEAN :
         IF ok
         THEN /\ prod' = [prod EXCEPT !.pc = "next"]
              /\ exit' = exit
         ELSE /\ prod' = prod
              /\ exit' = Exit1("producer", "container-open", e.Input, e.Input)
    /\ UNCHANGED <<e, fsys, files, lpc, ret, loader, jobsClosed, wk, outBuf, outCap,
                   outClosed, cpc, rClosed, received, sawClose, handed, mvars>>

\* The header r.Next() returns beside a non-EOF error: none (nil), or the
\* header it was reading. The error branch prints f.Name, which panics on a
\* nil header.
NextErrorExit(hdrNil, name) ==
    IF hdrNil THEN Panic("producer", "next", name)
    ELSE Exit1("producer", "next", name, name)

\* Solid rar: f, rerr := r.Next(). io.EOF ends the loop and the deferred
\* close(jobs) runs; an entry whose name is indexed is to be buffered, any
\* other is skipped.
RarNext ==
    /\ Alive
    /\ prod.pc = "next"
    /\ IF prod.pos = Len(files)
       THEN /\ prod' = [prod EXCEPT !.pc = "done"]
            /\ jobsClosed' = TRUE
            /\ exit' = exit
       ELSE LET f == files[prod.pos + 1]
            IN  \E ok \in BOOLEAN, hdrNil \in BOOLEAN :
                  /\ ok => ~hdrNil
                  /\ jobsClosed' = jobsClosed
                  /\ IF ok
                     THEN /\ prod' = [prod EXCEPT
                                 !.pos = prod.pos + 1,
                                 !.pc = IF f.name \in DOMAIN CbrIndex(files)
                                        THEN "copy" ELSE "next"]
                          /\ exit' = exit
                     ELSE /\ prod' = prod
                          /\ exit' = NextErrorExit(hdrNil, f.name)
    /\ UNCHANGED <<e, fsys, files, lpc, ret, loader, wk, outBuf, outCap,
                   outClosed, cpc, rClosed, received, sawClose, handed, mvars>>

\* A solid producer that numbers its jobs as it meets them, in archive order.
SolidJobByPosition(fl, pos) ==
    [Id |-> Cardinality({k \in 1..(pos - 1) : fl[k].name \in DOMAIN CbrIndex(fl)}),
     name |-> fl[pos].name, ent |-> 0, buf |-> pos]

\* A solid producer whose job reads the buffer of the entry before it.
SolidJobStaleBuffer(fl, pos) ==
    [Id |-> CbrIndex(fl)[fl[pos].name], name |-> fl[pos].name,
     ent |-> 0, buf |-> IF pos > 1 THEN pos - 1 ELSE pos]

\* A solid producer whose jobs all read the one buffer filled first.
SolidJobSharedBuffer(fl, pos) ==
    [Id |-> CbrIndex(fl)[fl[pos].name], name |-> fl[pos].name,
     ent |-> 0, buf |-> 1]

\* Solid rar: the job made for the entry the reader is at: its Id looked up
\* by name, its bytes the buffer just filled from the reader.
SolidJob(fl, pos) ==
    [Id |-> CbrIndex(fl)[fl[pos].name], name |-> fl[pos].name,
     ent |-> 0, buf |-> pos]

\* Solid rar: io.Copy(&b, r) buffers the current entry; the job is then
\* ready to be sent.
RarCopy ==
    /\ Alive
    /\ prod.pc = "copy"
    /\ \E ok \in BOOLEAN :
         IF ok
         THEN /\ prod' = [prod EXCEPT !.pc = "send",
                                      !.q = <<SolidJob(files, prod.pos)>>]
              /\ exit' = exit
         ELSE /\ prod' = prod
              /\ exit' = Exit1("producer", "copy", files[prod.pos].name,
                               files[prod.pos].name)
    /\ UNCHANGED <<e, fsys, files, lpc, ret, loader, jobsClosed, wk, outBuf, outCap,
                   outClosed, cpc, rClosed, received, sawClose, handed, mvars>>

\* loadPdf: img, err = pdfimage.Extract(pdf, i+1), skipped in a dry run. A
\* failure prints the error alone and exits.
PdfExtract ==
    /\ Alive
    /\ prod.mode = "pdf"
    /\ prod.pc = "loop"
    /\ prod.pos < ret.totalImages
    /\ ~e.Dry
    /\ \E ok \in BOOLEAN :
         IF ok
         THEN /\ prod' = [prod EXCEPT !.pc = "send"]
              /\ exit' = exit
         ELSE /\ prod' = prod
              /\ exit' = Exit1("producer", "extract", <<>>,
                               PdfPageName(prod.pos, ret.totalImages))
    /\ UNCHANGED <<e, fsys, files, lpc, ret, loader, jobsClosed, wk, outBuf, outCap,
                   outClosed, cpc, rClosed, received, sawClose, handed, mvars>>

\* loadPdf: the task of page i+1; its raster is the page's, none in a dry run.
PdfTask(i, totalImages, dry) ==
    [Id |-> i, Image |-> IF dry THEN 0 ELSE i + 1, Path |-> <<>>,
     Name |-> PdfPageName(i, totalImages)]

\* loadPdf: output <- &tasks{...} on the unbuffered channel: the consumer
\* takes the task at once.
PdfSend ==
    /\ Alive
    /\ prod.mode = "pdf"
    /\ prod.pos < ret.totalImages
    /\ prod.pc = "send" \/ (prod.pc = "loop" /\ e.Dry)
    /\ received' = Append(received, PdfTask(prod.pos, ret.totalImages, e.Dry))
    /\ prod' = [prod EXCEPT !.pos = prod.pos + 1, !.pc = "loop"]
    /\ UNCHANGED <<e, fsys, files, lpc, ret, loader, jobsClosed, wk, outBuf, outCap,
                   outClosed, cpc, rClosed, sawClose, exit, handed, mvars>>

\* loadPdf: the loop is over: defer pdf.Close(), defer close(output).
PdfClose ==
    /\ Alive
    /\ prod.mode = "pdf"
    /\ prod.pc = "loop"
    /\ prod.pos = ret.totalImages
    /\ prod' = [prod EXCEPT !.pc = "done"]
    /\ outClosed' = outClosed + 1
    /\ UNCHANGED <<e, fsys, files, lpc, ret, loader, jobsClosed, wk, outBuf, outCap,
                   cpc, rClosed, received, sawClose, exit, handed, mvars>>

\* --------------------------------------------------------------- workers
\* The bytes job.Open() gives the decoder: the buffer of a solid job, else
\* the entry's own content.
OpenBytes(job) == IF job.buf # 0 THEN job.buf ELSE job.ent

\* A directory member holds no data: opening or decoding it fails.
HasImageBytes(fl, bytes) == ~fl[bytes].isDir

\* The Path and Name of a job's task.
TaskPath(l, input, job) ==
    IF l = "dir" THEN DirTaskPath(Clean(input), job.name)
    ELSE ArchiveTaskPath(job.name)

\* The task a worker builds: the job's Id, the decoded raster (that of the
\* bytes read; none in a dry run), the Path and the Name.
MakeTask(job, img, tp) ==
    [Id |-> job.Id, Image |-> img, Path |-> tp.Path, Name |-> tp.Name]

\* The body of "for job := range jobs" up to the send: open and decode unless
\* dry (either may fail, which exits the process), then split the name.
WorkerProcess(w) ==
    /\ Alive
    /\ w \in DOMAIN wk
    /\ wk[w].pc = "work"
    /\ LET job == wk[w].job
           tp == TaskPath(loader, e.Input, job)
           built(img) ==
               IF tp.panic
               THEN /\ exit' = Panic("worker", "slice", job.name)
                    /\ wk' = wk
               ELSE /\ exit' = exit
                    /\ wk' = [wk EXCEPT ![w] = [pc |-> "send", job |-> job,
                                                task |-> MakeTask(job, img, tp)]]
       IN  IF e.Dry
           THEN /\ built(0)
                /\ handed' = handed
           ELSE \E outcome \in {"ok", "open", "decode"} :
                  /\ outcome = "open" => job.buf = 0
                  /\ outcome = "ok" => HasImageBytes(files, OpenBytes(job))
                  /\ CASE outcome = "open" ->
                            /\ exit' = Exit1("worker", "open", job.name, job.name)
                            /\ wk' = wk
                            /\ handed' = handed
                       [] outcome = "decode" ->
                            /\ exit' = Exit1("worker", "decode", job.name, job.name)
                            /\ wk' = wk
                            /\ handed' = handed \cup
                                 {[Id |-> job.Id, name |-> job.name,
                                   bytes |-> OpenBytes(job)]}
                       [] OTHER ->
                            /\ built(OpenBytes(job))
                            /\ handed' = handed \cup
                                 {[Id |-> job.Id, name |-> job.name,
                                   bytes |-> OpenBytes(job)]}
    /\ UNCHANGED <<e, fsys, files, lpc, ret, loader, prod, jobsClosed, outBuf, outCap,
                   outClosed, cpc, rClosed, received, sawClose, mvars>>

\* A send that never blocks: the task is queued whatever the buffer holds.
WorkerSendUnbounded(w) ==
    /\ Alive
    /\ w \in DOMAIN wk
    /\ wk[w].pc = "send"
    /\ outBuf' = Append(outBuf, wk[w].task)
    /\ wk' = [wk EXCEPT ![w] = IdleWorker]
    /\ UNCHANGED <<e, fsys, files, lpc, ret, loader, prod, jobsClosed, outCap,
                   outClosed, cpc, rClosed, received, sawClose, exit, handed, mvars>>

\* output <- &tasks{...}: blocks while the channel's buffer is full.
WorkerSend(w) ==
    /\ Alive
    /\ w \in DOMAIN wk
    /\ wk[w].pc = "send"
    /\ Len(outBuf) < outCap
    /\ outBuf' = Append(outBuf, wk[w].task)
    /\ wk' = [wk EXCEPT ![w] = IdleWorker]
    /\ UNCHANGED <<e, fsys, files, lpc, ret, loader, prod, jobsClosed, outCap,
                   outClosed, cpc, rClosed, received, sawClose, exit, handed, mvars>>

\* "for job := range jobs" ends on the closed job queue: defer wg.Done().
WorkerDone(w) ==
    /\ Alive
    /\ w \in DOMAIN wk
    /\ wk[w].pc = "recv"
    /\ jobsClosed
    /\ wk' = [wk EXCEPT ![w] = [pc |-> "done", job |-> <<>>, task |-> <<>>]]
    /\ UNCHANGED <<e, fsys, files, lpc, ret, loader, prod, jobsClosed, outBuf, outCap,
                   outClosed, cpc, rClosed, received, sawClose, exit, handed, mvars>>

\* wg.Wait() has returned: close(output). In loadCbz r.Close() is still to
\* run.
CloserClose ==
    /\ Alive
    /\ cpc = "wait"
    /\ \A w \in DOMAIN wk : wk[w].pc = "done"
    /\ cpc' = IF loader = "cbz" THEN "rclose" ELSE "done"
    /\ outClosed' = outClosed + 1
    /\ UNCHANGED <<e, fsys, files, lpc, ret, loader, prod, jobsClosed, wk, outBuf,
                   outCap, rClosed, received, sawClose, exit, handed, mvars>>

\* loadCbz: r.Close(), the last statement of the closing routine.
CloserReaderClose ==
    /\ Alive
    /\ cpc = "rclose"
    /\ cpc' = "done"
    /\ rClosed' = rClosed + 1
    /\ UNCHANGED <<e, fsys, files, lpc, ret, loader, prod, jobsClosed, wk, outBuf,
                   outCap, outClosed, received, sawClose, exit, handed, mvars>>

\* -------------------------------------------------------------- consumer
\* The caller of load() ranges over output: it takes the next buffered task.
ConsumerRecv ==
    /\ Alive
    /\ ret.output
    /\ outBuf # <<>>
    /\ received' = Append(received, Head(outBuf))
    /\ outBuf' = Tail(outBuf)
    /\ UNCHANGED <<e, fsys, files, lpc, ret, loader, prod, jobsClosed, wk, outCap,
                   outClosed, cpc, rClosed, sawClose, exit, handed, mvars>>

\* The channel is closed and drained: the range loop ends.
ConsumerSeeClose ==
    /\ Alive
    /\ ret.output
    /\ outBuf = <<>>
    /\ outClosed > 0
    /\ ~sawClose
    /\ sawClose' = TRUE
    /\ UNCHANGED <<e, fsys, files, lpc, ret, loader, prod, jobsClosed, wk, outBuf,
                   outCap, outClosed, cpc, rClosed, received, exit, handed, mvars>>

\* ------------------------------------------------------------------ main
Str_epub == <<".", "e", "p", "u", "b">>

\* filepath.Base: the last element of path, trailing slashes removed.
RECURSIVE StripSlashes(_)
StripSlashes(path) ==
    IF path # <<>> /\ path[Len(path)] = "/"
    THEN StripSlashes(SubSeq(path, 1, Len(path) - 1))
    ELSE path

Base(path) ==
    IF path = <<>> THEN <<".">>
    ELSE LET p == StripSlashes(path)
             last == SubSeq(p, LastSlash(p) + 1, Len(p))
         IN  IF last = <<>> THEN <<"/">> ELSE last

\* s without its extension: s[0 : len(s)-len(ext)].
TrimExt(path) == SubSeq(path, 1, Len(path) - Len(Ext(path)))

\* The codes of the Profiles table.
ProfileCodes ==
    {"K1", "K11", "K2", "K34", "K578", "KDX", "KPW", "KV", "KPW5", "KO", "KS",
     "KoMT", "KoG", "KoGHD", "KoA", "KoAHD", "KoAH2O", "KoAO", "KoN", "KoC",
     "KoL", "KoF", "KoS", "KoE"}

\* The smallest size limit main accepts, besides 0.
MinLimitMb == 20

\* main: "if opt.LimitMb > 0 && opt.LimitMb < 20": the limit is refused.
LimitRejected(limitMb) == limitMb > 0 /\ limitMb < MinLimitMb

\* main: the default output name, from the cleaned input.
DefaultOutput(input, isDir) ==
    LET inputBase == Clean(input)
    IN  IF isDir THEN inputBase \o Str_epub
        ELSE TrimExt(inputBase) \o Str_epub

MainExit(code) ==
    /\ mpc' = "exited"
    /\ mout' = [mout EXCEPT !.code = code]
    /\ opt' = opt

\* if opt.Input == "" { usage; os.Exit(1) }
MainInput ==
    /\ mpc = "input"
    /\ IF opt.Input = <<>> THEN MainExit(1)
       ELSE /\ mpc' = "stat"
            /\ UNCHANGED <<opt, mout>>
    /\ UNCHANGED <<pvars, menv>>

\* os.Stat(opt.Input), then the default output and the output's default.
MainStat ==
    /\ mpc = "stat"
    /\ IF menv.inputStat = "err" THEN MainExit(1)
       ELSE LET d == DefaultOutput(opt.Input, menv.inputStat = "dir")
            IN  /\ opt' = [opt EXCEPT
                      !.defaultOutput = d,
                      !.Output = IF opt.Output = <<>> THEN d ELSE opt.Output]
                /\ mpc' = "output"
                /\ mout' = mout
    /\ UNCHANGED <<pvars, menv>>

\* An output that does not end with .epub must be an existing directory; the
\* file then goes into it under the default output's base name.
MainOutput ==
    /\ mpc = "output"
    /\ IF Ext(opt.Output) # Str_epub
       THEN IF menv.outputStat # "dir" THEN MainExit(1)
            ELSE /\ opt' = [opt EXCEPT
                       !.Output = JoinPath(opt.Output, Base(opt.defaultOutput))]
                 /\ mpc' = "profile"
                 /\ mout' = mout
       ELSE /\ mpc' = "profile"
            /\ UNCHANGED <<opt, mout>>
    /\ UNCHANGED <<pvars, menv>>

\* profileIdx, profileMatch := ProfilesIdx[opt.Profile]
MainProfile ==
    /\ mpc = "profile"
    /\ IF opt.Profile \notin ProfileCodes THEN MainExit(1)
       ELSE /\ mpc' = "limit"
            /\ UNCHANGED <<opt, mout>>
    /\ UNCHANGED <<pvars, menv>>

MainLimit ==
    /\ mpc = "limit"
    /\ IF LimitRejected(opt.LimitMb) THEN MainExit(1)
       ELSE /\ mpc' = "algo"
            /\ UNCHANGED <<opt, mout>>
    /\ UNCHANGED <<pvars, menv>>

\* The default title, then the check of the algo against ALGO_GRAY.
MainAlgo ==
    /\ mpc = "algo"
    /\ IF ~menv.algoOk
       THEN /\ mpc' = "exited"
            /\ mout' = [mout EXCEPT !.code = 1]
            /\ opt' = [opt EXCEPT !.Title =
                         IF opt.Title = <<>>
                         THEN Base(TrimExt(opt.defaultOutput)) ELSE opt.Title]
       ELSE /\ mpc' = "write"
            /\ mout' = mout
            /\ opt' = [opt EXCEPT !.Title =
                         IF opt.Title = <<>>
                         THEN Base(TrimExt(opt.defaultOutput)) ELSE opt.Title]
    /\ UNCHANGED <<pvars, menv>>

\* epub.NewEpub(options).Write(): the conversion runs with the options given;
\* an error exits with 1, success with 0.
MainWrite ==
    /\ mpc = "write"
    /\ mpc' = "exited"
    /\ mout' = [code |-> IF menv.writeOk THEN 0 ELSE 1, wrote |-> TRUE,
                LimitMb |-> opt.LimitMb, Output |-> opt.Output]
    /\ opt' = opt
    /\ UNCHANGED <<pvars, menv>>

MainInputs ==
    {<<>>, Path_in, Path_in \o <<"/">>, Path_dot, Path_cbz, <<"d", "/">> \o Path_pdf}

MainOutputs ==
    {<<>>, <<"o">> \o Str_epub, <<"o", "u", "t">>, <<"o", ".", "d", "/">>}

MainInit ==
    /\ e = [Input |-> Path_txt, Dry |-> TRUE, Workers |-> 1]
    /\ fsys = [statOk |-> FALSE, isDir |-> FALSE, readable |-> FALSE]
    /\ files = <<>>
    /\ PipelineStart
    /\ mpc = "input"
    /\ opt \in [Input : MainInputs, Output : MainOutputs,
                Profile : {"KS", "K1", "", "KX"},
                LimitMb : (0 - MaxNegLimit)..MaxLimit,
                Title : {<<>>}, defaultOutput : {<<>>}]
    /\ menv \in [inputStat : {"err", "dir", "file"},
                 outputStat : {"err", "dir", "file"},
                 algoOk : BOOLEAN, writeOk : BOOLEAN,
                 outputArg : {opt.Output}]
    /\ mout = [code |-> -1, wrote |-> FALSE, LimitMb |-> 0, Output |-> <<>>]

MainNext ==
    \/ MainInput
    \/ MainStat
    \/ MainOutput
    \/ MainProfile
    \/ MainLimit
    \/ MainAlgo
    \/ MainWrite

MainSpec == MainInit /\ [][MainNext]_vars

WorkerIds == 1..WorkersRatio(MaxWorkers, 50)

Next ==
    \/ Load
    \/ \E w \in WorkerIds : ProducerSend(w)
    \/ ProducerClose
    \/ RarOpen
    \/ RarNext
    \/ RarCopy
    \/ PdfExtract
    \/ PdfSend
    \/ PdfClose
    \/ \E w \in WorkerIds : WorkerProcess(w)
    \/ \E w \in WorkerIds : WorkerSend(w)
    \/ \E w \in WorkerIds : WorkerDone(w)
    \/ CloserClose
    \/ CloserReaderClose
    \/ ConsumerRecv
    \/ ConsumerSeeClose

Spec == Init /\ [][Next]_vars

\* ------------------------------------------------- load() on its own
\* The inputs of the dispatch: names with the extensions in several letter
\* cases, a dot in a directory element only, two dots, no dot.
DispatchStems == {<<"a">>, <<"x", ".", "z", "i", "p", "/", "a">>}

ZipExts == {Str_cbz, <<".", "C", "B", "Z">>, <<".", "C", "b", "z">>,
            Str_zip, <<".", "Z", "I", "P">>, <<".", "z", "I", "p">>}
RarExts == {Str_cbr, <<".", "C", "B", "R">>, <<".", "c", "b", "R">>,
            Str_rar, <<".", "R", "A", "R">>, <<".", "R", "a", "r">>}
PdfExts == {Str_pdf, <<".", "P", "D", "F">>, <<".", "P", "d", "f">>}
OtherExts == {<<>>, <<".", "t", "x", "t">>, Str_epub, Str_jpg,
              <<".", "c", "b">>, <<".", "z", "i", "p", "x">>,
              <<".", "p", "d", "f", ".", "b", "a", "k">>,
              <<".", "r", "a", "r", "/", "a">>, <<"c", "b", "z">>}

DispatchPaths ==
    {stem \o ext : stem \in DispatchStems,
                   ext \in ZipExts \cup RarExts \cup PdfExts \cup OtherExts}

DispatchInit ==
    /\ e \in [Input : DispatchPaths, Dry : {TRUE}, Workers : {1}]
    /\ fsys \in [statOk : BOOLEAN, isDir : BOOLEAN, readable : {TRUE}]
    /\ files = <<Page>>
    /\ PipelineStart
    /\ MainIdle

DispatchNext == Load

DispatchSpec == DispatchInit /\ [][DispatchNext]_vars

\* ------------------------------------------------- loadPdf on its own
\* A readable pdf of 0 to MaxPages pages, dry or real.
PdfInit ==
    /\ e \in [Input : {Path_pdf}, Dry : BOOLEAN, Workers : {1}]
    /\ fsys = [statOk |-> TRUE, isDir |-> FALSE, readable |-> TRUE]
    /\ files \in {[i \in 1..n |-> Page] : n \in 0..MaxPages}
    /\ PipelineStart
    /\ MainIdle

PdfNext ==
    \/ Load
    \/ PdfExtract
    \/ PdfSend
    \/ PdfClose
    \/ ConsumerSeeClose

PdfSpec == PdfInit /\ [][PdfNext]_vars

\* ------------------------------------------------- loadDir on its own
\* The directories walked: a relative one, the same with a trailing
\* separator, the current directory and the root.
Path_root == <<"/">>
DirWalkPaths == {Path_in, Path_in \o <<"/">>, Path_dot, Path_root}

DirInit ==
    /\ e \in [Input : DirWalkPaths, Dry : BOOLEAN, Workers : {1, MaxWorkers}]
    /\ fsys = [statOk |-> TRUE, isDir |-> TRUE, readable |-> TRUE]
    /\ files \in SeqsUpTo(Entries, MaxEntries)
    /\ ListingFits("dir", files)
    /\ PipelineStart
    /\ MainIdle

DirNext ==
    \/ Load
    \/ \E w \in WorkerIds : ProducerSend(w)
    \/ ProducerClose
    \/ \E w \in WorkerIds : WorkerProcess(w)
    \/ \E w \in WorkerIds : WorkerSend(w)
    \/ \E w \in WorkerIds : WorkerDone(w)
    \/ CloserClose
    \/ ConsumerRecv
    \/ ConsumerSeeClose

DirSpec == DirInit /\ [][DirNext]_vars

\* ---------------------------------------------------------- properties
\* The entry names with a supported image extension.
QualifyingNames == {Name_b, Name_da}

Qualifying(fl) == {i \in DOMAIN fl : ~fl[i].isDir /\ fl[i].name \in QualifyingNames}

\* The qualifying pages of the container the chosen loader reads.
PageCount == IF loader = "pdf" THEN Len(files) ELSE Cardinality(Qualifying(files))

\* The tasks put on the output channel so far.
Emitted == received \o outBuf

\* An entry (or the sequential reader) failed to open, read or decode.
EntryFailed ==
    exit.cause \in {"container-open", "next", "copy", "open", "decode", "extract"}

\* Every routine load() started has returned and the output is closed.
PipelineDone ==
    /\ prod.pc = "done"
    /\ \A w \in DOMAIN wk : wk[w].pc = "done"
    /\ cpc \in {"off", "done"}
    /\ outClosed >= 1

\* C1: the Ids of the tasks emitted are exactly 0..N-1: none twice, and none
\* missing once the stream has ended.
C1_IdsExactlyRange ==
    /\ \A i, j \in DOMAIN Emitted : Emitted[i].Id = Emitted[j].Id => i = j
    /\ sawClose => {Emitted[i].Id : i \in DOMAIN Emitted} = 0..(ret.totalImages - 1)

\* C2: in loadDir, loadCbz and loadCbr the output is closed once, only after
\* every worker has returned, and the consumer that sees it closed has
\* received exactly totalImages tasks.
C2_ClosedOnceAfterWorkers ==
    loader \in {"dir", "cbz", "cbr"} =>
        /\ outClosed <= 1
        /\ outClosed = 1 => \A w \in DOMAIN wk : wk[w].pc = "done"
        /\ sawClose => Len(received) = ret.totalImages

\* Some routine of the pipeline, or the consumer, can take its next step.
CanStep ==
    \/ prod.pc = "send" /\ prod.q # <<>> /\ \E w \in DOMAIN wk : wk[w].pc = "recv"
    \/ prod.pc = "send" /\ prod.mode = "list" /\ prod.q = <<>>
    \/ prod.pc \in {"open", "next", "copy"}
    \/ prod.mode = "pdf" /\ prod.pc \in {"loop", "send"}
    \/ \E w \in DOMAIN wk : wk[w].pc = "work"
    \/ \E w \in DOMAIN wk : wk[w].pc = "send" /\ Len(outBuf) < outCap
    \/ \E w \in DOMAIN wk : wk[w].pc = "recv" /\ jobsClosed
    \/ cpc = "wait" /\ \A w \in DOMAIN wk : wk[w].pc = "done"
    \/ cpc = "rclose"
    \/ outBuf # <<>>

\* C3: when no entry fails, a started pipeline is never stopped before every
\* routine has returned and the output is closed: the process is running and,
\* until then, some routine can take a step.
C3_NoRoutineStuck ==
    (lpc = "returned" /\ ret.output /\ ~EntryFailed) =>
        /\ exit.code = -1
        /\ PipelineDone \/ CanStep

\* C4: a readable container with zero qualifying pages makes load() return
\* the no-images error, no output channel, and start nothing.
C4_ZeroPagesIsError ==
    (lpc = "returned" /\ loader # "none" /\ fsys.readable /\ PageCount = 0) =>
        /\ ret.err = "noimages"
        /\ ~ret.output
        /\ prod.pc = "off"
        /\ wk = <<>>

\* C5: a failure to open, read or decode an entry ends the process with exit
\* status 1 and a message naming the entry (for a pdf page the message is the
\* library's error, whose text is left open), and the output is never closed.
C5_EntryFailureExits1 ==
    EntryFailed =>
        /\ exit.code = 1
        /\ exit.cause # "extract" => (exit.msg = exit.offender /\ exit.msg # <<>>)
        /\ outClosed = 0

\* The input has a discovery error: no stat, an unsupported extension, an
\* unreadable container, or no qualifying page.
DiscoveryError ==
    \/ ~fsys.statOk
    \/ (~fsys.isDir /\ e.Input = Path_txt)
    \/ ~fsys.readable
    \/ PageCount = 0

\* C6: every discovery error is returned by load() with nothing started, and
\* a failure to open the container never ends the process.
C6_DiscoveryErrorsReturned ==
    /\ (lpc = "returned" /\ DiscoveryError) =>
          (ret.err # "nil" /\ ~ret.output /\ prod.pc = "off" /\ wk = <<>>)
    /\ exit.cause # "container-open"

\* The jobs of the per-entry strategy, which is the one a dry run takes.
ListJobs ==
    CASE loader = "dir" -> DirJobs(Clean(e.Input), files)
      [] loader = "cbz" -> CbzJobs(files)
      [] loader = "cbr" -> CbrJobs(files)
      [] OTHER -> <<>>

\* The (Id, Path, Name) triples of the container, whatever the mode.
DryReference ==
    IF loader = "pdf"
    THEN {<<i, <<>>, PdfPageName(i, Len(files))>> : i \in 0..(Len(files) - 1)}
    ELSE {<<j.Id, TaskPath(loader, e.Input, j).Path,
            TaskPath(loader, e.Input, j).Name>> : j \in Range(ListJobs)}

\* C7: at the end of the stream a dry run and a real run have returned the
\* same totalImages and delivered the same (Id, Path, Name) triples, those of
\* the listing alone; only the raster differs, absent exactly in a dry run.
C7_DryRunEquivalence ==
    sawClose =>
        /\ ret.totalImages = PageCount
        /\ {<<t.Id, t.Path, t.Name>> : t \in Range(received)} = DryReference
        /\ \A t \in Range(received) : (t.Image = 0) = e.Dry

\* What the per-entry strategy hands to the decoder: each indexed member's
\* Id, name and own bytes.
PerEntryHanded ==
    {[Id |-> j.Id, name |-> j.name, bytes |-> j.ent] : j \in Range(CbrJobs(files))}

\* C8: for a rar archive, solid or not, the (Id, Name, bytes) handed to the
\* decoder are those of the per-entry strategy: never any other, and all of
\* them once the stream has ended.
C8_SolidRarEquivalence ==
    (loader = "cbr" /\ ~e.Dry) =>
        /\ handed \subseteq PerEntryHanded
        /\ sawClose => handed = PerEntryHanded

HasExt(path, exts) ==
    \E stem \in DispatchStems, ext \in exts : path = stem \o ext

\* The loader the input calls for: the directory loader for a directory, else
\* the loader of the extension in any letter case, else none.
ExpectedLoader ==
    IF fsys.isDir THEN "dir"
    ELSE IF HasExt(e.Input, ZipExts) THEN "cbz"
    ELSE IF HasExt(e.Input, RarExts) THEN "cbr"
    ELSE IF HasExt(e.Input, PdfExts) THEN "pdf"
    ELSE "none"

\* C9: load() picks the loader from the directory check and then the
\* lower-cased extension; any other extension is the unknown-format error
\* with no loader invoked.
C9_LoaderByDirThenExtension ==
    (lpc = "returned" /\ fsys.statOk) =>
        /\ loader = ExpectedLoader
        /\ IF ExpectedLoader = "none"
           THEN ret.err = "unknown" /\ ~ret.output /\ prod.pc = "off"
           ELSE ret.err = "nil" /\ ret.output

\* C10: a size limit other than 0 below the floor is refused with status 1
\* before the conversion: Write only ever runs with LimitMb 0 or >= 20.
C10_LimitFloor ==
    /\ mout.wrote => (mout.LimitMb = 0 \/ mout.LimitMb >= MinLimitMb)
    /\ (mpc = "exited" /\ opt.LimitMb # 0 /\ opt.LimitMb < MinLimitMb) =>
          (~mout.wrote /\ mout.code = 1)

\* The base name of the cleaned input, without its extension unless the input
\* is a directory.
InputBasename ==
    LET base == Base(Clean(opt.Input))
    IN  IF menv.inputStat = "dir" THEN base ELSE TrimExt(base)

\* C11: when the -output argument is an existing directory, the conversion
\* writes to <that directory>/<input-basename>.epub, whatever the directory is
\* called.
C11_OutputInExistingDir ==
    (mout.wrote /\ menv.outputArg # <<>> /\ menv.outputStat = "dir") =>
        mout.Output = JoinPath(menv.outputArg, InputBasename \o Str_epub)

\* The jobs made and not yet turned into a sent task.
HeldJobs ==
    Range(prod.q) \cup {wk[w].job : w \in {v \in DOMAIN wk : wk[v].pc \in {"work", "send"}}}

\* C12: for a directory, a zip and a rar, totalImages is the number of
\* non-directory entries with a supported extension in any letter case, and
\* no other entry ever gets a job or a task.
C12_OnlySupportedImagesCounted ==
    (lpc = "returned" /\ loader \in {"dir", "cbz", "cbr"}) =>
        /\ ret.totalImages = Cardinality(Qualifying(files))
        /\ \A j \in HeldJobs : OpenBytes(j) \in Qualifying(files)
        /\ Len(Emitted) <= Cardinality(Qualifying(files))

\* The sorted list of the archive's image names.
SortedPages ==
    SortNames(NamesOf(IF loader = "cbz" THEN CbzImages(files) ELSE CbrImages(files)))

\* C13: in loadCbz and loadCbr every job carries, from the moment it is made,
\* the position of its name in the sorted list; the task with Id i has the
\* Path and Name of the i-th sorted entry, so the tasks received, ordered by
\* Id, are in sorted page order whatever the archive order, the number of
\* workers and the completion order.
C13_IdIsSortedPosition ==
    loader \in {"cbz", "cbr"} =>
        LET sorted == SortedPages
        IN  /\ \A j \in HeldJobs :
                  /\ j.Id + 1 \in DOMAIN sorted
                  /\ sorted[j.Id + 1] = j.name
            /\ \A t \in Range(Emitted) :
                  /\ t.Id + 1 \in DOMAIN sorted
                  /\ <<t.Path, t.Name>> = Split(Clean(sorted[t.Id + 1]))
            /\ \A t, u \in Range(received) :
                  t.Id < u.Id => StrLess(t.Path \o t.Name, u.Path \o u.Name)

\* A zip whose archive order is the reverse of the sorted order was read by
\* two workers, and the page sorted last was received first.
C13_Witness ==
    /\ sawClose
    /\ loader = "cbz"
    /\ Len(wk) = 2
    /\ Len(received) = 2
    /\ received[1].Id = 1
    /\ files[1].name = Name_da

\* The workers that hold a job: decoding it, or waiting to send its task.
Busy == {w \in DOMAIN wk : wk[w].pc \in {"work", "send"}}

\* The entries the sequential reader has passed whose name is wanted.
WantedPassed == {k \in 1..prod.pos : files[k].name \in DOMAIN CbrIndex(files)}

\* In solid mode: a job exists only for a wanted entry the reader has passed
\* and buffered, it reads that entry's buffer and no entry of the archive, no
\* two jobs read the same buffer, every wanted entry passed got its job, and
\* the job queue is closed only at the end of the archive.
SolidJobsBuffered ==
    prod.mode = "solid" =>
        /\ \A j \in HeldJobs :
              /\ j.ent = 0
              /\ j.buf \in WantedPassed
              /\ files[j.buf].name = j.name
        /\ prod.q # <<>> => (prod.pc = "send" /\ Len(prod.q) = 1
                               /\ prod.q[1].buf = prod.pos)
        /\ \A w \in Busy : \A j \in Range(prod.q) : wk[w].job.buf # j.buf
        /\ \A v, w \in Busy : wk[v].job.buf = wk[w].job.buf => v = w
        /\ Len(Emitted) + Cardinality(Busy) + Len(prod.q)
             = Cardinality(WantedPassed) - (IF prod.pc = "copy" THEN 1 ELSE 0)
        /\ jobsClosed => (prod.pc = "done" /\ prod.pos = Len(files)
                            /\ exit.by # "producer")

\* In solid mode the reader moves one entry at a time, and only the producer
\* moves it: a step of a worker or of the consumer leaves it where it is.
SolidReaderStep ==
    prod.mode = "solid" =>
        /\ prod'.pos \in {prod.pos, prod.pos + 1}
        /\ prod'.pos # prod.pos => (prod.pc = "next" /\ wk' = wk /\ received' = received)

\* C14: in solid-rar mode the sequential reader is advanced by the producer
\* alone, entry by entry in archive order; a job is queued only once its
\* entry is buffered, reads its own buffer, exists for wanted entries only,
\* and the end of the archive closes the job queue.
C14_SolidReaderSingleOwner == [](SolidJobsBuffered) /\ [][SolidReaderStep]_vars

\* A solid archive whose first member is not wanted: it was skipped, the
\* second was buffered, decoded and delivered, and the end of the archive
\* closed the job queue.
C14_Witness ==
    /\ prod.mode = "solid"
    /\ jobsClosed
    /\ files[1].name = Name_c
    /\ Len(received) = 1
    /\ received[1].Image = 2

\* A real run of loadCbr has started its routines.
RealRarRun == lpc = "returned" /\ loader = "cbr" /\ ret.output /\ ~e.Dry

\* C15, as stated: in a real run of loadCbr, a member flagged solid, whatever
\* the member, puts the producer on the sequential reader.
C15_AnySolidMemberForcesSequential ==
    (RealRarRun /\ \E i \in DOMAIN files : files[i].solid) => prod.mode = "solid"

\* C15, amended: in a real run of loadCbr the producer is on the sequential
\* reader exactly when a member the filter kept (not a directory, supported
\* extension) is flagged solid; a solid flag on a skipped member changes
\* nothing.
C15_SolidImageForcesSequential ==
    RealRarRun => ((prod.mode = "solid") = (\E i \in Qualifying(files) : files[i].solid))

\* A real run of an archive whose second image alone is flagged solid has
\* delivered a page from the sequential reader.
C15_Witness ==
    /\ RealRarRun
    /\ prod.mode = "solid"
    /\ Qualifying(files) = {1, 2}
    /\ ~files[1].solid
    /\ files[2].solid
    /\ received # <<>>

\* The tasks built so far: sent, or held by a worker waiting to send.
Built == Range(Emitted) \cup {wk[w].task : w \in {v \in DOMAIN wk : wk[v].pc = "send"}}

\* C16: in a dry run every task has no raster, nothing was handed to the
\* decoder, no pdf page was extracted, the sequential rar reader is not used,
\* and the process never takes the per-page error exit; in a real run every
\* task has a raster.
C16_DryRunOpensNothing ==
    /\ e.Dry =>
          /\ \A t \in Built : t.Image = 0
          /\ handed = {}
          /\ prod.mode # "solid"
          /\ prod.mode = "pdf" => prod.pc # "send"
          /\ ~EntryFailed
          /\ exit.code # 1
    /\ ~e.Dry => \A t \in Built : t.Image # 0

\* A dry run of a rar archive with solid members has delivered both pages
\* and ended.
C16_Witness ==
    /\ e.Dry
    /\ loader = "cbr"
    /\ \A i \in DOMAIN files : files[i].solid
    /\ Len(received) = 2
    /\ sawClose

DigitChars == <<"0", "1", "2", "3", "4", "5", "6", "7", "8", "9">>

\* "page " and the page number k in as many digits as n has, for n below 100.
ExpectedPageName(k, n) ==
    <<"p", "a", "g", "e", " ">> \o
        (IF n < 10 THEN <<DigitChars[k + 1]>>
         ELSE <<DigitChars[(k \div 10) + 1], DigitChars[(k % 10) + 1]>>)

\* C17: loadPdf delivers the pages in ascending order, the i-th task received
\* having Id i-1, an empty Path and the padded page name; the channel is
\* closed once, after all N tasks.
C17_PdfPagesInOrder ==
    loader = "pdf" =>
        /\ Len(received) <= Len(files)
        /\ \A i \in DOMAIN received :
              /\ received[i].Id = i - 1
              /\ received[i].Path = <<>>
              /\ received[i].Name = ExpectedPageName(i, Len(files))
        /\ outClosed <= 1
        /\ outClosed = 1 => Len(received) = Len(files)

\* A pdf of ten pages or more was delivered whole: its first page is named
\* "page 01".
C17_Witness ==
    /\ loader = "pdf"
    /\ sawClose
    /\ Len(received) >= 10
    /\ received[1].Name = <<"p", "a", "g", "e", " ", "0", "1">>
    /\ received[10].Name = <<"p", "a", "g", "e", " ", "1", "0">>

\* Half of the configured workers, one at least.
DecodeShare == IF e.Workers \div 2 < 1 THEN 1 ELSE e.Workers \div 2

\* The pool has WorkersRatio(50) workers, so no more entries than that are
\* being opened or decoded; the channel holds at most e.Workers tasks, so the
\* pages decoded and not yet received are at most that plus one per worker;
\* and a worker holds one job at a time: the jobs taken from the listing are
\* the tasks sent plus the jobs still held.
InFlightBounded ==
    (lpc = "returned" /\ loader \in {"dir", "cbz", "cbr"} /\ ret.output) =>
        /\ Len(wk) = DecodeShare
        /\ Cardinality({w \in DOMAIN wk : wk[w].pc = "work"}) <= DecodeShare
        /\ Len(outBuf) <= e.Workers
        /\ Len(outBuf) + Cardinality({w \in DOMAIN wk : wk[w].pc = "send"})
             <= e.Workers + DecodeShare
        /\ prod.mode = "list" =>
              Len(ListJobs) - Len(prod.q) = Len(Emitted) + Cardinality(Busy)

\* A worker waiting to send on a full channel stays as it is.
BlockedWorkerWaits ==
    \A w \in DOMAIN wk :
        (wk[w].pc = "send" /\ Len(outBuf) >= e.Workers) => wk'[w] = wk[w]

\* C18: in loadDir, loadCbz and loadCbr at most WorkersRatio(50) entries are
\* being decoded at once, the decoded pages not yet received never exceed
\* the channel's capacity plus the number of workers, and a worker that
\* cannot send waits with its task instead of taking another job.
C18_BoundedInFlight == [](InFlightBounded) /\ [][BlockedWorkerWaits]_vars

\* With one configured worker: the channel holds one task and the worker
\* waits to send the next.
C18_Witness ==
    /\ e.Workers = 1
    /\ Len(outBuf) = 1
    /\ \E w \in DOMAIN wk : wk[w].pc = "send"

\* C19: in loadCbz the zip reader is closed at most once; it is closed when
\* the no-images error is returned; otherwise it is closed only after every
\* worker has left its job loop, so no worker holds or decodes a member of a
\* closed archive; and the closing routine ends with it closed.
C19_ZipReaderClosedOnce ==
    (lpc = "returned" /\ loader = "cbz") =>
        /\ rClosed <= 1
        /\ ret.err = "noimages" => rClosed = 1
        /\ (ret.output /\ rClosed = 1) =>
              (outClosed = 1 /\ \A w \in DOMAIN wk : wk[w].pc = "done")
        /\ (ret.output /\ cpc = "done") => rClosed = 1

\* A zip of two images was read to the end: the output was closed, then
\* the reader.
C19_Witness ==
    /\ loader = "cbz"
    /\ ~e.Dry
    /\ Len(received) = 2
    /\ cpc = "done"
    /\ rClosed = 1

\* C20: in loadDir, for every input directory, computing the prefix never
\* panics, and the task of a file has the file's base name as Name and, as
\* Path, the file's directory relative to the input root (empty for a file
\* of the root itself).
C20_DirPathAndName ==
    loader = "dir" =>
        /\ exit.cause # "slice"
        /\ \A w \in DOMAIN wk :
              wk[w].pc = "send" =>
                  <<wk[w].task.Path, wk[w].task.Name>> = Split(files[wk[w].job.ent].name)
        /\ \A t \in Range(Emitted) :
              \E i \in Qualifying(files) : <<t.Path, t.Name>> = Split(files[i].name)

\* A real run of a solid rar archive has ended with two pages delivered.
C7_Witness ==
    /\ sawClose
    /\ ~e.Dry
    /\ loader = "cbr"
    /\ prod.mode = "solid"
    /\ Len(received) = 2

\* A solid rar archive whose archive order is not the sorted order has had
\* both members decoded from their buffers.
C8_Witness ==
    /\ sawClose
    /\ loader = "cbr"
    /\ prod.mode = "solid"
    /\ Cardinality(handed) = 2
    /\ \E h \in handed : h.Id # h.bytes - 1

\* A file named with an upper-case extension went to the rar loader, and a
\* directory named like a zip went to the directory loader.
C9_Witness ==
    /\ lpc = "returned"
    /\ \/ (~fsys.isDir /\ Ext(e.Input) = <<".", "C", "B", "R">> /\ loader = "cbr")
       \/ (fsys.isDir /\ Ext(e.Input) = Str_zip /\ loader = "dir")

====
